---------------------------- MODULE Spec2Model ----------------------------
(***************************************************************************)
(* A model of wordle_solver.py: the five-letter word solver.               *)
(*                                                                         *)
(* A letter is its index in the alphabet the program accepts after         *)
(* normalisation (1 = the first letter ... 32 = the last), so the order of *)
(* the integers is the order Python's sorted() gives the lower-case        *)
(* words.  A word is a 5-tuple of letters.  A feedback string, as the      *)
(* player types it, is a 5-tuple of the characters "0", "1", "2"; the      *)
(* pattern evaluate_word computes is a 5-tuple of the integers 0, 1, 2.    *)
(***************************************************************************)
EXTENDS Integers, Sequences, FiniteSets, TLC

VARIABLES
    all_words,       \* solve_wordle: the dictionary get_nouns returned
    possible_words,  \* solve_wordle: the candidates still possible
    first_guess,     \* solve_wordle: the (normalised) opening word
    attempt,         \* solve_wordle: the loop variable of range(1, 7)
    current_guess,   \* solve_wordle: the word of the running round
    pc,              \* solve_wordle: where the function stands
    outcome,         \* solve_wordle: the message it ended with
    history,         \* the <<guess, feedback>> pairs filtered on so far
    secret,          \* the word the player has in mind (truthful player)
    call,            \* a call of one of the pure functions: its arguments
    ret,             \* ... and what the call returned
    dict_file,       \* the dictionary file: its lines
    dict_log         \* the add/remove commands run on the file so far

vars == << all_words, possible_words, first_guess, attempt, current_guess,
           pc, outcome, history, secret, call, ret, dict_file, dict_log >>

gameVars == << all_words, possible_words, first_guess, attempt,
               current_guess, pc, outcome, history, secret >>
callVars == << call, ret >>
dictVars == << dict_file, dict_log >>

---------------------------------------------------------------------------
(* Program constants *)

WordLen == 5
MaxAttempts == 6
ScoreLimit == 50
AlphabetSize == 32
Ye == 6
Yo == 33
Hyphen == 40
Space == 41
Foreign == 50
UpperCase == 100

(* Bounds of the model *)

NumLetters == 3
MaxDict == 8
MaxWords == 2
MaxCandidates == 3
LongStart == 21
LongTails == 12
MaxLines == 2
MaxOps == 2

---------------------------------------------------------------------------
(* Values *)

None == 0
Pos == 1..WordLen
Alphabet == 1..AlphabetSize
Letters == 1..NumLetters
Words == [Pos -> Letters]
Marks == {"0", "1", "2"}
Feedbacks == [Pos -> Marks]

Range(s) == {s[i] : i \in DOMAIN s}

\* Python's str comparison on two words of the same length.
WordLess(a, b) ==
    \E i \in Pos : a[i] < b[i] /\ \A j \in 1..(i - 1) : a[j] = b[j]

IsSorted(s) == \A i \in 1..(Len(s) - 1) : WordLess(s[i], s[i + 1])

\* sorted(S) for a set of words.
RECURSIVE SortedSeq(_)
SortedSeq(S) ==
    IF S = {} THEN << >>
    ELSE LET m == CHOOSE x \in S : \A y \in S \ {x} : WordLess(x, y)
         IN  << m >> \o SortedSeq(S \ {m})

---------------------------------------------------------------------------
(* filter_words *)

\* dict.get(key, default)
Get(d, key, default) == IF key \in DOMAIN d THEN d[key] ELSE default

\* Counter(word)
Counter(word) ==
    [ch \in Range(word) |-> Cardinality({i \in DOMAIN word : word[i] = ch})]

\* required_counts after the loop over enumerate(guess_list)
RECURSIVE required_counts_upto(_, _, _)
required_counts_upto(guess, feedback, n) ==
    IF n = 0 THEN << >>
    ELSE LET d == required_counts_upto(guess, feedback, n - 1)
             ch == guess[n]
         IN  IF feedback[n] \in {"1", "2"}
             THEN [k \in DOMAIN d \cup {ch} |->
                       IF k = ch THEN Get(d, ch, 0) + 1 ELSE d[k]]
             ELSE d

required_counts(guess, feedback) ==
    required_counts_upto(guess, feedback, WordLen)

\* first inner loop: the positions marked "2" and "1"
positions_valid(word, guess, feedback) ==
    \A i \in Pos :
        IF feedback[i] = "2" THEN word[i] = guess[i]
        ELSE IF feedback[i] = "1" THEN word[i] # guess[i]
        ELSE TRUE

\* second inner loop: a letter marked "1" is in the word
present_valid(word, guess, feedback) ==
    \A i \in Pos : feedback[i] = "1" => guess[i] \in Range(word)

\* Mutant: a letter marked "0" is allowed nowhere, whatever its other marks.
absent_allowed_zero(guess, feedback, letter) == 0

\* third inner loop: a letter marked "0" occurs at most `allowed` times
absent_allowed(guess, feedback, letter) ==
    Get(required_counts(guess, feedback), letter, 0)

\* Mutant: ">=" for ">" in the test of the third loop.
absent_valid_strict(word, guess, feedback) ==
    LET word_counts == Counter(word)
    IN  \A i \in Pos :
            feedback[i] = "0" =>
                Get(word_counts, guess[i], 0)
                    < absent_allowed(guess, feedback, guess[i])

absent_valid(word, guess, feedback) ==
    LET word_counts == Counter(word)
    IN  \A i \in Pos :
            feedback[i] = "0" =>
                Get(word_counts, guess[i], 0)
                    <= absent_allowed(guess, feedback, guess[i])

\* Mutant: the guess itself is not skipped.
word_kept_with_guess(word, guess, feedback) ==
    /\ positions_valid(word, guess, feedback)
    /\ present_valid(word, guess, feedback)
    /\ absent_valid(word, guess, feedback)

word_kept(word, guess, feedback) ==
    /\ word # guess
    /\ positions_valid(word, guess, feedback)
    /\ present_valid(word, guess, feedback)
    /\ absent_valid(word, guess, feedback)

keep_test(guess, feedback, word) == word_kept(word, guess, feedback)

\* Mutant: "break" for "continue" after the first loop: the scan of the
\* list ends at the first word a marked position rules out.
filter_words_break(words, guess, feedback) ==
    LET stops == {k \in DOMAIN words :
                     words[k] # guess /\ ~positions_valid(words[k], guess, feedback)}
        scanned == IF stops = {} THEN words
                   ELSE SubSeq(words, 1, (CHOOSE k \in stops : \A j \in stops : k <= j) - 1)
    IN  SelectSeq(scanned, LAMBDA word : keep_test(guess, feedback, word))

filter_words(words, guess, feedback) ==
    SelectSeq(words, LAMBDA word : keep_test(guess, feedback, word))

---------------------------------------------------------------------------
(* evaluate_word: the pattern of one target, then the largest bucket *)

\* list.index(x): the first position holding x
Index(s, x) == CHOOSE i \in DOMAIN s : s[i] = x /\ \A j \in 1..(i - 1) : s[j] # x

\* first loop: exact matches, consumed in both working copies
pass1_feedback(word, target) ==
    [i \in Pos |-> IF word[i] = target[i] THEN 2 ELSE 0]
pass1_letters(own, other) ==
    [i \in Pos |-> IF own[i] = other[i] THEN None ELSE own[i]]

\* Mutant: the matched letter of the target is not consumed.
pass2_step_no_consume(feedback, target_letters, word_letters, i) ==
    IF word_letters[i] # None /\ word_letters[i] \in Range(target_letters)
    THEN [fb |-> [feedback EXCEPT ![i] = 1], tl |-> target_letters]
    ELSE [fb |-> feedback, tl |-> target_letters]

\* what the second loop does at position i with the letters left over
pass2_step(feedback, target_letters, word_letters, i) ==
    IF word_letters[i] # None /\ word_letters[i] \in Range(target_letters)
    THEN [fb |-> [feedback EXCEPT ![i] = 1],
          tl |-> [target_letters EXCEPT ![Index(target_letters, word_letters[i])] = None]]
    ELSE [fb |-> feedback, tl |-> target_letters]

\* second loop, from position i on
RECURSIVE pass2(_, _, _, _)
pass2(feedback, target_letters, word_letters, i) ==
    IF i > WordLen THEN feedback
    ELSE LET s == pass2_step(feedback, target_letters, word_letters, i)
         IN  pass2(s.fb, s.tl, word_letters, i + 1)

\* the pattern evaluate_word computes for one target
simulate(word, target) ==
    pass2(pass1_feedback(word, target),
          pass1_letters(target, word),
          pass1_letters(word, target),
          1)

\* the patterns dict after the loop over possible_words
patterns(word, words) ==
    LET pattern == [k \in DOMAIN words |-> simulate(word, words[k])]
    IN  [p \in Range(pattern) |->
            Cardinality({k \in DOMAIN words : pattern[k] = p})]

Max(S) == CHOOSE x \in S : \A y \in S : y <= x

evaluate_word(word, words) ==
    LET pt == patterns(word, words)
    IN  IF DOMAIN pt # {} THEN Max(Range(pt)) ELSE 0

\* get_best_guess: the scan of the loop over candidates, from index k on
RECURSIVE best_scan(_, _, _, _, _)
best_scan(candidates, words, k, best_word, best_score) ==
    IF k > Len(candidates) THEN best_word
    ELSE LET score == evaluate_word(candidates[k], words)
         IN  IF score < best_score
             THEN best_scan(candidates, words, k + 1, candidates[k], score)
             ELSE best_scan(candidates, words, k + 1, best_word, best_score)

Min(a, b) == IF a <= b THEN a ELSE b

\* Mutant: every candidate is scored.
scan_limit_all(words) == Len(words)

\* limit = min(50, len(possible_words))
scan_limit(words) == Min(ScoreLimit, Len(words))

\* float("inf"): above every score, a score being at most len(possible_words)
Infinity(words) == Len(words) + 1

get_best_guess(words, dictionary) ==
    IF Len(words) <= 2 THEN words[1]
    ELSE LET candidates == SubSeq(words, 1, scan_limit(words))
         IN  best_scan(candidates, words, 1, candidates[1], Infinity(words))

---------------------------------------------------------------------------
(* Idle values of the variables a specification does not use *)

NoCall == [fn |-> "none"]
NoRet == [done |-> FALSE, value |-> << >>]
Returned(v) == [done |-> TRUE, value |-> v]

GameIdle ==
    /\ all_words = << >> /\ possible_words = << >> /\ first_guess = << >>
    /\ attempt = 0 /\ current_guess = << >> /\ pc = "idle"
    /\ outcome = "none" /\ history = << >> /\ secret = << >>
CallIdle == call = NoCall /\ ret = NoRet
DictIdle == dict_file = << >> /\ dict_log = << >>

(* The words the game specifications draw their dictionaries from *)

\* Nine words sharing their first two letters and nothing else: a guess
\* answered "22000" removes only itself, so a game on them runs long.
LongWords ==
    << << 1, 2, 3, 4, 5 >>,     << 1, 2, 6, 7, 8 >>,
       << 1, 2, 9, 10, 11 >>,   << 1, 2, 12, 13, 14 >>,
       << 1, 2, 15, 16, 17 >>,  << 1, 2, 18, 19, 20 >>,
       << 1, 2, 21, 22, 23 >>,  << 1, 2, 24, 25, 26 >>,
       << 1, 2, 27, 28, 29 >> >>

Kolos == << 11, 15, 12, 15, 18 >>
Nasos == << 14, 1, 18, 15, 18 >>
Oblik == << 15, 2, 12, 9, 11 >>
Ogon  == << 15, 4, 15, 14, 29 >>
Opera == << 15, 16, 6, 17, 1 >>
Osen  == << 15, 18, 6, 14, 29 >>
Ohota == << 15, 22, 15, 19, 1 >>
Sokol == << 18, 15, 11, 15, 12 >>
Sosna == << 18, 15, 18, 14, 1 >>

\* Words with repeated letters and anagram pairs, and the five words of
\* the documented scenario; in dictionary order.
Lexicon ==
    << Kolos, Nasos, Oblik, Ogon, Opera, Osen, Ohota, Sokol, Sosna >>

Vocabulary == LongWords \o Lexicon

\* A dictionary as get_nouns returns it: unique words in sorted order.
\* Here: every run of at most MaxDict neighbouring words of Vocabulary.
Dictionaries ==
    {SubSeq(Vocabulary, i, j) :
        i \in 1..Len(Vocabulary), j \in 0..Len(Vocabulary)}
    \cap {d \in Seq(Range(Vocabulary)) : Len(d) <= MaxDict}

\* The opening words tried: the default, another dictionary word, and a
\* word of no dictionary.
FirstGuesses == {Opera, LongWords[2], << 32, 32, 32, 32, 32 >>}

---------------------------------------------------------------------------
(* get_feedback_interactive: the player's encoding of a pattern *)

\* "0-серая, 1-желтая, 2-зеленая": the digit typed for each mark
MarkChar(m) == IF m = 2 THEN "2" ELSE IF m = 1 THEN "1" ELSE "0"
FeedbackString(pattern) == [i \in Pos |-> MarkChar(pattern[i])]

AllCorrect == [i \in Pos |-> "2"]

---------------------------------------------------------------------------
(* solve_wordle *)

GameInit ==
    /\ all_words \in Dictionaries
    /\ first_guess \in FirstGuesses
    /\ possible_words = << >>
    /\ attempt = 0
    /\ current_guess = << >>
    /\ pc = "start"
    /\ outcome = "none"
    /\ history = << >>

Finish(msg) == pc' = "done" /\ outcome' = msg

\* lines 162-169: load the dictionary, stop on an empty one
Start ==
    /\ pc = "start"
    /\ IF all_words = << >>
       THEN /\ Finish("empty_dictionary")
            /\ UNCHANGED << possible_words, attempt >>
       ELSE /\ possible_words' = all_words
            /\ attempt' = 1
            /\ pc' = "round"
            /\ UNCHANGED outcome
    /\ UNCHANGED << all_words, first_guess, current_guess, history, secret >>
    /\ UNCHANGED << callVars, dictVars >>

\* lines 180-183: the guess of the round
choose_guess(n, words, dictionary, opening) ==
    IF n = 1
    THEN IF opening \in Range(dictionary) THEN opening ELSE words[1]
    ELSE get_best_guess(words, dictionary)

\* lines 172-186: the top of a round, up to the prompt for feedback
BeginRound ==
    /\ pc = "round"
    /\ IF Len(possible_words) = 0
       THEN Finish("no_possible_words") /\ UNCHANGED current_guess
       ELSE IF Len(possible_words) = 1
       THEN Finish("solved_last_word") /\ UNCHANGED current_guess
       ELSE /\ current_guess' =
                  choose_guess(attempt, possible_words, all_words, first_guess)
            /\ pc' = "feedback"
            /\ UNCHANGED outcome
    /\ UNCHANGED << all_words, first_guess, possible_words, attempt,
                    history, secret >>
    /\ UNCHANGED << callVars, dictVars >>

\* Mutant: each round filters the dictionary, not the candidates left.
next_candidates_from_dictionary(words, dictionary, guess, feedback) ==
    filter_words(dictionary, guess, feedback)

\* line 192: the candidates of the next round
next_candidates(words, dictionary, guess, feedback) ==
    filter_words(words, guess, feedback)

\* Mutant: range(1, 8).
last_attempt_late(n) == n = MaxAttempts + 1

\* range(1, 7): the round after which the loop ends
last_attempt(n) == n = MaxAttempts

\* lines 188-203: the rest of the round, once the player typed `feedback`
Feedback(feedback) ==
    /\ pc = "feedback"
    /\ IF feedback = AllCorrect
       THEN /\ Finish("solved_by_guess")
            /\ UNCHANGED << possible_words, attempt, history >>
       ELSE LET left == next_candidates(possible_words, all_words,
                                         current_guess, feedback)
            IN  /\ possible_words' = left
                /\ history' = Append(history, << current_guess, feedback >>)
                /\ IF last_attempt(attempt)
                   THEN /\ Finish(IF Len(left) >= 1 THEN "last_attempt"
                                  ELSE "no_variants_left")
                        /\ UNCHANGED attempt
                   ELSE /\ attempt' = attempt + 1
                        /\ pc' = "round"
                        /\ UNCHANGED outcome
    /\ UNCHANGED << all_words, first_guess, current_guess, secret >>
    /\ UNCHANGED << callVars, dictVars >>

\* any well-formed line the player may type
AnyFeedback == \E feedback \in Feedbacks : Feedback(feedback)

\* the line a player types who reports the pattern of the secret faithfully
TruthfulFeedback ==
    Feedback(FeedbackString(simulate(current_guess, secret)))

Init == GameInit /\ secret = << >> /\ CallIdle /\ DictIdle
Next == Start \/ BeginRound \/ AnyFeedback
Spec == Init /\ [][Next]_vars

\* The player has a word of the dictionary in mind.
TruthInit ==
    GameInit /\ secret \in Range(all_words) /\ CallIdle /\ DictIdle
TruthNext == Start \/ BeginRound \/ TruthfulFeedback
TruthSpec == TruthInit /\ [][TruthNext]_vars

---------------------------------------------------------------------------
(* Calls of the pure functions, their arguments drawn from bounded sets *)

\* The sorted lists of at most n words of the Lexicon.
WordLists(n) ==
    {SortedSeq(S) : S \in {T \in SUBSET Range(Lexicon) : Cardinality(T) <= n}}

\* FilterSpec: filter_words on every list, guess and feedback string
FilterInit ==
    /\ GameIdle /\ DictIdle
    /\ call \in {[fn |-> "filter_words", words |-> ws, guess |-> g, feedback |-> fb] :
                    ws \in WordLists(MaxWords), g \in Range(Lexicon), fb \in Feedbacks}
    /\ ret = NoRet

FilterCall ==
    /\ call.fn = "filter_words" /\ ~ret.done
    /\ ret' = Returned(filter_words(call.words, call.guess, call.feedback))
    /\ UNCHANGED << call, gameVars, dictVars >>

FilterNext == FilterCall
FilterSpec == FilterInit /\ [][FilterNext]_vars

\* FilterGameSpec: the calls of FilterSpec and the games of Spec
FilterGameInit == FilterInit \/ Init
FilterGameNext == FilterCall \/ Start \/ BeginRound \/ AnyFeedback
FilterGameSpec == FilterGameInit /\ [][FilterGameNext]_vars

\* CommuteSpec: two guesses filtered in either order, their feedback being
\* the patterns of one secret
CommuteInit ==
    /\ GameIdle /\ DictIdle
    /\ call \in {[fn |-> "filter_twice", words |-> ws, a |-> a, b |-> b, secret |-> t] :
                    ws \in WordLists(MaxCandidates), a \in Range(Lexicon),
                    b \in Range(Lexicon), t \in Range(Lexicon)}
    \* a call computes both orders, so <<a, b>> stands for <<b, a>> too
    /\ call.a = call.b \/ WordLess(call.a, call.b)
    /\ ret = NoRet

filter_twice(words, first, second, target) ==
    filter_words(
        filter_words(words, first, FeedbackString(simulate(first, target))),
        second, FeedbackString(simulate(second, target)))

CommuteCall ==
    /\ call.fn = "filter_twice" /\ ~ret.done
    /\ ret' = Returned([ab |-> filter_twice(call.words, call.a, call.b, call.secret),
                        ba |-> filter_twice(call.words, call.b, call.a, call.secret)])
    /\ UNCHANGED << call, gameVars, dictVars >>

CommuteNext == CommuteCall
CommuteSpec == CommuteInit /\ [][CommuteNext]_vars

\* ScoreSpec: the score of a guess, and the candidates the filter leaves
\* when the secret is one of the candidates
ScoreInit ==
    /\ GameIdle /\ DictIdle
    /\ call \in {[fn |-> "evaluate_word", words |-> ws, word |-> w, secret |-> t] :
                    ws \in WordLists(MaxCandidates), w \in Range(Lexicon),
                    t \in Range(Lexicon)}
    /\ call.secret \in Range(call.words)
    /\ ret = NoRet

ScoreCall ==
    /\ call.fn = "evaluate_word" /\ ~ret.done
    /\ ret' = Returned(
           [score |-> evaluate_word(call.word, call.words),
            left  |-> filter_words(call.words, call.word,
                         FeedbackString(simulate(call.word, call.secret)))])
    /\ UNCHANGED << call, gameVars, dictVars >>

ScoreNext == ScoreCall
ScoreSpec == ScoreInit /\ [][ScoreNext]_vars

\* SelectSpec: get_best_guess on short lists of the Lexicon and on lists
\* of ScoreLimit and more words over the letters 1..NumLetters
RECURSIVE Pow(_, _)
Pow(b, e) == IF e = 0 THEN 1 ELSE b * Pow(b, e - 1)
\* the n-th word over Letters in dictionary order, from 0
WordAt(n) ==
    [i \in Pos |-> ((n \div Pow(NumLetters, WordLen - i)) % NumLetters) + 1]
Segment(from, len) == [k \in 1..len |-> WordAt(from + k - 1)]
NumWords == Pow(NumLetters, WordLen)
LongLists ==
    {Segment(LongStart, ScoreLimit) \o tail :
        tail \in {<< >>} \cup {<< WordAt(x) >> : x \in (NumWords - LongTails)..(NumWords - 1)}}

SelectInit ==
    /\ GameIdle /\ DictIdle
    /\ call \in {[fn |-> "get_best_guess", words |-> ws] :
                    ws \in {l \in WordLists(MaxCandidates) : Len(l) >= 2} \cup LongLists}
    /\ ret = NoRet

SelectCall ==
    /\ call.fn = "get_best_guess" /\ ~ret.done
    /\ ret' = Returned(get_best_guess(call.words, call.words))
    /\ UNCHANGED << call, gameVars, dictVars >>

SelectNext == SelectCall
SelectSpec == SelectInit /\ [][SelectNext]_vars

---------------------------------------------------------------------------
(* The dictionary file: normalize_word, get_nouns and the two commands *)

\* A raw character is a lower-case letter (its index, 1..32), the same
\* letter in upper case (UpperCase more), the letter "yo" in either case,
\* a hyphen, a space, or some character outside the alphabet.
Lower(c) == IF c > UpperCase THEN c - UpperCase ELSE c

\* str.strip()
RECURSIVE lstrip(_)
lstrip(raw) ==
    IF raw # << >> /\ Head(raw) = Space THEN lstrip(Tail(raw)) ELSE raw
RECURSIVE rstrip(_)
rstrip(raw) ==
    IF raw # << >> /\ raw[Len(raw)] = Space
    THEN rstrip(SubSeq(raw, 1, Len(raw) - 1)) ELSE raw
strip(raw) == rstrip(lstrip(raw))

normalize_word(word) ==
    LET stripped == strip(word)
        lowered  == [i \in DOMAIN stripped |-> Lower(stripped[i])]
        folded   == [i \in DOMAIN lowered |->
                        IF lowered[i] = Yo THEN Ye ELSE lowered[i]]
    IN  SelectSeq(folded, LAMBDA c : c # Hyphen /\ c # Space)

\* CYRILLIC_5_RE with re.IGNORECASE, then the membership test
is_valid_five_letter_word(word) ==
    /\ word # << >>
    /\ LET normalized_word == normalize_word(word)
       IN  /\ Len(normalized_word) = WordLen
           /\ \A i \in DOMAIN normalized_word :
                  Lower(normalized_word[i]) \in Alphabet
           /\ \A i \in DOMAIN normalized_word :
                  normalized_word[i] \in Alphabet

NoFile == [exists |-> FALSE, lines |-> << >>]
FileOf(lines) == [exists |-> TRUE, lines |-> lines]

get_nouns(file) ==
    IF ~file.exists THEN << >>
    ELSE SortedSeq({w \in {normalize_word(file.lines[k]) : k \in DOMAIN file.lines} :
                       is_valid_five_letter_word(w)})

\* the file after write_words_atomic: each word and a line break
write_words_atomic(words) == FileOf(words)

\* list.remove(x): without the first x
RemoveFirst(s, x) ==
    LET k == Index(s, x)
    IN  SubSeq(s, 1, k - 1) \o SubSeq(s, k + 1, Len(s))

\* the file and the result after add_word_to_dict(word)
add_word_to_dict(word, file) ==
    LET w == normalize_word(word)
        words == get_nouns(file)
    IN  IF ~is_valid_five_letter_word(w) THEN [file |-> file, ok |-> FALSE]
        ELSE IF w \in Range(words) THEN [file |-> file, ok |-> TRUE]
        ELSE [file |-> write_words_atomic(SortedSeq(Range(Append(words, w)))),
              ok |-> TRUE]

\* Mutant: the word to remove is looked up as typed, not normalised.
remove_word_raw(word, file) ==
    LET words == get_nouns(file)
    IN  IF word \notin Range(words) THEN [file |-> file, ok |-> FALSE]
        ELSE [file |-> write_words_atomic(RemoveFirst(words, word)), ok |-> TRUE]

\* the file and the result after remove_word_from_dict(word)
remove_word_from_dict(word, file) ==
    LET w == normalize_word(word)
        words == get_nouns(file)
    IN  IF w \notin Range(words) THEN [file |-> file, ok |-> FALSE]
        ELSE [file |-> write_words_atomic(RemoveFirst(words, w)), ok |-> TRUE]

\* The lines a dictionary file may hold: words as the program writes them,
\* a word in upper case, one spelt with "yo", one with spaces around it and
\* a hyphen inside, a word too short, an empty line, a foreign character.
UpperOpera == [i \in Pos |-> Opera[i] + UpperCase]
YoWord == << Yo, 7, 9, 11, 9 >>
SpacedWord == << Space, 16, 15, Hyphen, 19, 15, 13, Space >>
RawLines ==
    {Ogon, Opera, Osen, UpperOpera, YoWord, SpacedWord,
     << 15, 16 >>, << >>, << Foreign, 15, 16, 6, 17 >>}

\* The words given to --add-word and --remove-word.
RawWords == {Oblik, Opera, UpperOpera, YoWord, << 15, 16 >>}

Files ==
    {NoFile} \cup {FileOf(l) : l \in UNION {[1..n -> RawLines] : n \in 0..MaxLines}}

DictInit ==
    /\ GameIdle /\ CallIdle
    /\ dict_file \in Files
    /\ dict_log = << >>

Logged(op, word, r) ==
    Append(dict_log, [op |-> op, word |-> word, before |-> dict_file,
                      after |-> r.file, ok |-> r.ok])

\* main() with --add-word
AddWord(word) ==
    /\ Len(dict_log) < MaxOps
    /\ LET r == add_word_to_dict(word, dict_file)
       IN  dict_file' = r.file /\ dict_log' = Logged("add", word, r)
    /\ UNCHANGED << gameVars, callVars >>

\* main() with --remove-word
RemoveWord(word) ==
    /\ Len(dict_log) < MaxOps
    /\ LET r == remove_word_from_dict(word, dict_file)
       IN  dict_file' = r.file /\ dict_log' = Logged("remove", word, r)
    /\ UNCHANGED << gameVars, callVars >>

DictNext ==
    \/ \E word \in RawWords : AddWord(word)
    \/ \E word \in RawWords : RemoveWord(word)
DictSpec == DictInit /\ [][DictNext]_vars

---------------------------------------------------------------------------
(* SimSpec: the pattern of every guess against every secret *)

SimInit ==
    /\ GameIdle /\ DictIdle
    /\ \E w \in Words, t \in Words :
           call = [fn |-> "simulate", word |-> w, target |-> t]
    /\ ret = NoRet

Simulate ==
    /\ call.fn = "simulate" /\ ~ret.done
    /\ ret' = Returned(simulate(call.word, call.target))
    /\ UNCHANGED << call, gameVars, dictVars >>

SimNext == Simulate
SimSpec == SimInit /\ [][SimNext]_vars

---------------------------------------------------------------------------
(* The properties checked *)

Occurrences(w, letter) == Cardinality({i \in Pos : w[i] = letter})
MarkedCount(guess, fb, letter) ==
    Cardinality({i \in Pos : guess[i] = letter /\ fb[i] \in {"1", "2"}})

\* A word meets the constraints of a guess and its feedback string.
Consistent(w, guess, fb) ==
    /\ \A i \in Pos : fb[i] = "2" => w[i] = guess[i]
    /\ \A i \in Pos : fb[i] = "1" =>
           w[i] # guess[i] /\ \E j \in Pos \ {i} : w[j] = guess[i]
    /\ \A i \in Pos : fb[i] = "0" =>
           Occurrences(w, guess[i]) <= MarkedCount(guess, fb, guess[i])

Outcomes ==
    {"empty_dictionary", "no_possible_words", "solved_last_word",
     "solved_by_guess", "last_attempt", "no_variants_left"}

\* The steps solve_wordle can still take: two a round, none once it ended.
StepsLeft ==
    IF pc = "done" THEN 0
    ELSE 2 * (MaxAttempts - attempt)
         + (IF pc = "feedback" THEN 1 ELSE IF pc = "round" THEN 2 ELSE 3)

(* C1: whatever well-formed feedback the player types, solve_wordle asks  *)
(* for feedback in at most 6 rounds, never starts a 7th, and ends with    *)
(* one of its final messages: every step it takes leaves it fewer steps   *)
(* to take, and it has ended exactly when it has given a final message.   *)
C1_EndsWithinSixRounds ==
    /\ [](/\ attempt <= MaxAttempts
          /\ Len(history) <= MaxAttempts
          /\ StepsLeft >= 0
          /\ pc \in {"start", "round", "feedback", "done"}
          /\ (pc = "feedback" => attempt >= 1 /\ Len(history) = attempt - 1)
          /\ (pc = "done" <=> outcome \in Outcomes))
    /\ [][StepsLeft' < StepsLeft]_vars

\* A game that filtered on six guesses and ended on "last attempt".
C1_SixthRoundPlayed ==
    /\ pc = "done" /\ outcome = "last_attempt"
    /\ attempt = MaxAttempts /\ Len(history) = MaxAttempts

(* C2: filter_words returns only words of its list and never the guess;   *)
(* so in a game the candidates never grow and never again hold a word     *)
(* already guessed.                                                       *)
C2_FilterShrinks ==
    /\ [](call.fn = "filter_words" /\ ret.done =>
              Range(ret.value) \subseteq Range(call.words) \ {call.guess})
    /\ [](\A k \in DOMAIN history : history[k][1] \notin Range(possible_words))
    /\ [][pc # "start" => Range(possible_words') \subseteq Range(possible_words)]_vars

\* A call whose guess is in the list and meets its own feedback: only the
\* skip of the guess keeps it out of the result.
C2_GuessSkipped ==
    /\ call.fn = "filter_words" /\ ret.done
    /\ call.guess \in Range(call.words)
    /\ Consistent(call.guess, call.guess, call.feedback)
    /\ Len(call.words) > 1

(* C3: at the start of a round every candidate meets the constraints of   *)
(* every guess and feedback of the earlier rounds, not only the last.     *)
C3_ConsistentWithAllRounds ==
    pc \in {"round", "feedback"} =>
        \A k \in DOMAIN history : \A n \in DOMAIN possible_words :
            Consistent(possible_words[n], history[k][1], history[k][2])

\* A third round (or later) with candidates left, where a dictionary word
\* meets the last round's constraints but not the first round's.
C3_EarlierRoundMatters ==
    /\ pc = "round" /\ Len(history) >= 2 /\ possible_words # << >>
    /\ \E w \in Range(all_words) :
          /\ \A k \in DOMAIN history : w # history[k][1]
          /\ Consistent(w, history[Len(history)][1], history[Len(history)][2])
          /\ ~Consistent(w, history[1][1], history[1][2])

(* C4: filter_words returns exactly the words of the list, other than the *)
(* guess, that have the guess letter where it is marked 2, have it        *)
(* elsewhere but not there where it is marked 1, and hold a letter marked *)
(* 0 at most as often as the guess has it marked 1 or 2.                  *)
C4_FilterExact ==
    call.fn = "filter_words" /\ ret.done =>
        ret.value =
            SelectSeq(call.words,
                      LAMBDA w : w # call.guess
                                 /\ Consistent(w, call.guess, call.feedback))

\* A call that keeps a word holding a letter the guess has marked 0 in one
\* place and 1 or 2 in another.
C4_MarkedZeroAndKept ==
    /\ call.fn = "filter_words" /\ ret.done
    /\ \E i \in Pos : \E n \in DOMAIN ret.value :
          /\ call.feedback[i] = "0"
          /\ MarkedCount(call.guess, call.feedback, call.guess[i]) >= 1
          /\ Occurrences(ret.value[n], call.guess[i]) >= 1

(* C5: in the pattern of a guess against a secret, a letter is marked 1   *)
(* at most as often as the secret holds it outside the exact matches.     *)
C5_NoLetterInflation ==
    call.fn = "simulate" /\ ret.done =>
        \A letter \in Letters :
            Cardinality({i \in Pos : call.word[i] = letter /\ ret.value[i] = 1})
                <= Occurrences(call.target, letter)
                   - Cardinality({i \in Pos : call.word[i] = letter
                                              /\ call.target[i] = letter})

\* A pattern in which a letter of the guess is marked 1 as often as the
\* secret allows, and marked 0 in one more place.
C5_RepeatedLetterRunsOut ==
    /\ call.fn = "simulate" /\ ret.done
    /\ \E letter \in Letters :
          LET ones == {i \in Pos : call.word[i] = letter /\ ret.value[i] = 1}
              exact == {i \in Pos : call.word[i] = letter /\ call.target[i] = letter}
          IN  /\ ones # {}
              /\ Cardinality(ones) = Occurrences(call.target, letter) - Cardinality(exact)
              /\ \E i \in Pos : call.word[i] = letter /\ ret.value[i] = 0

(* C6: filtering on guess A and then on guess B leaves the same words as  *)
(* filtering on B and then on A, both feedbacks being the patterns of one *)
(* secret.                                                                *)
C6_FilterOrderIrrelevant ==
    call.fn = "filter_twice" /\ ret.done =>
        Range(ret.value.ab) = Range(ret.value.ba)

\* Two different guesses, each of which removes a word the other keeps,
\* with a word left after both.
C6_BothFiltersBite ==
    /\ call.fn = "filter_twice" /\ ret.done
    /\ call.a # call.b
    /\ ret.value.ab # << >>
    /\ LET fa == filter_words(call.words, call.a,
                              FeedbackString(simulate(call.a, call.secret)))
           fb == filter_words(call.words, call.b,
                              FeedbackString(simulate(call.b, call.secret)))
       IN  ret.value.ab # fa /\ ret.value.ab # fb

(* C7: the score of a guess bounds the candidates left: for a secret      *)
(* among the candidates, filtering on the guess and the secret's pattern  *)
(* leaves at most evaluate_word(guess, candidates) words.                 *)
C7_ScoreBoundsCandidatesLeft ==
    call.fn = "evaluate_word" /\ ret.done =>
        Len(ret.value.left) <= ret.value.score

(* C8: get_best_guess returns the first candidate when at most 2 remain;  *)
(* otherwise the candidate of least score among the first min(50, n) in   *)
(* dictionary order, and of those with that score the earliest.           *)
C8_BestGuess ==
    call.fn = "get_best_guess" /\ ret.done =>
        LET ws == call.words
            limit == Min(ScoreLimit, Len(ws))
            score == [j \in 1..limit |-> evaluate_word(ws[j], ws)]
        IN  IF Len(ws) <= 2 THEN ret.value = ws[1]
            ELSE \E k \in 1..limit :
                    /\ ret.value = ws[k]
                    /\ \A j \in 1..limit : score[k] <= score[j]
                    /\ \A j \in 1..(k - 1) : score[j] > score[k]

\* A list of more than 50 candidates whose last word, the 51st, scores
\* lower than the word returned.
C8_CapExcludesBetterWord ==
    /\ call.fn = "get_best_guess" /\ ret.done
    /\ Len(call.words) > ScoreLimit
    /\ evaluate_word(call.words[Len(call.words)], call.words)
           < evaluate_word(ret.value, call.words)

\* The k-th command removed the word the command before it had added, a
\* valid word the dictionary did not hold.
AddedThenRemoved(k) ==
    /\ dict_log[k - 1].op = "add" /\ dict_log[k].op = "remove"
    /\ dict_log[k].word = dict_log[k - 1].word
    /\ is_valid_five_letter_word(dict_log[k].word)
    /\ normalize_word(dict_log[k].word)
           \notin Range(get_nouns(dict_log[k - 1].before))

ValidWordsOf(file) ==
    {w \in {normalize_word(file.lines[n]) : n \in DOMAIN file.lines} :
        is_valid_five_letter_word(w)}

Canonical(file) ==
    /\ file.exists
    /\ \A n \in DOMAIN file.lines :
           /\ is_valid_five_letter_word(file.lines[n])
           /\ normalize_word(file.lines[n]) = file.lines[n]
    /\ IsSorted(file.lines)

C10_SecretStaysCandidate ==
    /\ pc # "start" => secret \in Range(possible_words)
    /\ outcome \notin {"no_possible_words", "no_variants_left", "empty_dictionary"}
    /\ outcome = "solved_by_guess" => current_guess = secret
    /\ outcome = "solved_last_word" => possible_words = << secret >>

\* A game that ended on the one word left, the secret, after two rounds
\* or more, an earlier guess having a letter of the secret marked 0.
C10_SecretSurvivesFilters ==
    /\ pc = "done" /\ outcome = "solved_last_word" /\ Len(history) >= 2
    /\ \E k \in DOMAIN history : \E i \in Pos :
          /\ history[k][2][i] = "0"
          /\ Occurrences(secret, history[k][1][i]) >= 1

=============================================================================
